---- MODULE Spec2Model ----
(***************************************************************************)
(* The run-configuration state machine of the SEAQT GUI                    *)
(* (src/Frontend/SEAQT_GUI.py, class SEAQTGui) with the backend handler it *)
(* constructs (src/Frontend/MATLAB_Backend_Handler.py).                    *)
(*                                                                         *)
(* Every Tk callback is one action.  A Tk variable is modelled by the text *)
(* it holds: a DoubleVar whose text is "" makes get() raise TclError, a    *)
(* DoubleVar whose text is "0.0" is the falsy value the validation treats  *)
(* as missing.  An exception that leaves a callback is caught by Tk's main *)
(* loop, which prints it and goes on: the assignments made before it stay. *)
(***************************************************************************)
EXTENDS Integers, Sequences, FiniteSets, TLC

\* ----------------------------------------------------------------- bounds
\* What the user supplies in one session: an entry typed into the form (a
\* block field, duration, time type, block count, copy-from), a click on an
\* arrow of the block-count spinbox, an archive picked for loading.
MaxInputs == 1
\* Launches that pass validation (calls of start_data_process) in one session;
\* the form is opened only while one remains.
MaxLaunches == 1
\* The block counts 1..MaxResize are tried in pairs on every config reached.
MaxResize == 2

\* How many times the export dialog is opened.
MaxExports == 2

\* ------------------------------------------------------ program constants
DEFAULT_NUM_BLOCKS == 20
DEFAULT_TIME_DURATION == 100
SPINBOX_FROM == 1
SPINBOX_TO == 100

TimeType_MIN == 1
TimeType_MAX == 2
DEFAULT_TIME_TYPE == TimeType_MIN

RunType_ELECTRON == 1
RunType_PHONON == 2
RunType_BOTH == 3
DEFAULT_RUN_TYPE == RunType_BOTH

PlotNumber_INVALID == -1
PlotNumber_ELECTRON_TEMPERATURE == 1
PlotNumber_PHONON_TEMPERATURE == 6
PlotNumber_DATA_NOT_LOADED == 400
PlotNumber_DATA_PROCESSING == 401
PlotNumber_DATA_PROCESSED_SUCCESSFULLY == 402
PlotNumber_DATA_LOADED_SUCCESSFULLY == 403
PlotNumber_ERROR == 999

DEFAULT_BLOCK_SIZE == "1e-07"
DEFAULT_BLOCK_TEMP_A == "295"
DEFAULT_BLOCK_TEMP_B == "300"
DEFAULT_FERMI == "6"
DEFAULT_ELECTRON_DOS_FILENAME == "Electron_DOS.xlsx"
DEFAULT_ELECTRON_EV_FILENAME == "Electron_EV.xlsx"
DEFAULT_ELECTRON_RELAXATION == "5e-15"
DEFAULT_ELECTRON_EFFECTIVE_MASS == "1"
DEFAULT_PHONON_DOS_FILENAME == "Phonon_DOS.xlsx"
DEFAULT_PHONON_EV_FILENAME == "Phonon_EV.xlsx"
DEFAULT_PHONON_VELOCITIES == "6000"
DEFAULT_PHONON_RELAXATION == "5e-12"

SEAQT_RUN_FILENAMES == <<"Time_Evolution.mat", "System_description.mat", "seaqt_prefs.json">>

\* ------------------------------------------------------- the config store
\* The 14 per-block lists of SEAQTGui, in the order the code names them.
SharedFields == <<"block_sizes", "block_temperatures", "fermi_energies">>

ElectronFields ==
  <<"electron_ev_file_paths", "electron_dos_file_paths", "electron_tau_file_paths",
    "electron_group_velocities", "electron_relaxation_times", "electron_effective_masses">>

PhononFields ==
  <<"phonon_ev_file_paths", "phonon_dos_file_paths", "phonon_tau_file_paths",
    "phonon_group_velocities", "phonon_relaxation_times">>

AllFields == SharedFields \o ElectronFields \o PhononFields

Range(s) == {s[i] : i \in DOMAIN s}

FieldSet == Range(AllFields)

\* The lists of StringVar; the others are lists of DoubleVar.
StringFields ==
  {"electron_ev_file_paths", "electron_dos_file_paths", "electron_tau_file_paths",
   "phonon_ev_file_paths", "phonon_dos_file_paths", "phonon_tau_file_paths"}

\* StringVar() holds "", DoubleVar() holds 0.0.
FreshVar(f) == IF f \in StringFields THEN "" ELSE "0.0"

\* DoubleVar.get() raises TclError when the entry's text is no number.
GetRaises(f, text) == f \notin StringFields /\ text = ""

\* `not var.get()`: an empty string or 0.0.
Falsy(text) == text = "" \/ text = "0.0"

IncludesElectron(run_type) == run_type = RunType_ELECTRON \/ run_type = RunType_BOTH

IncludesPhonon(run_type) == run_type = RunType_PHONON \/ run_type = RunType_BOTH

EmptyArrays == [f \in FieldSet |-> <<>>]

\* ------------------------------------------------------------- the state
VARIABLES
  backend,                \* the entry points of the handler object built in __init__
  number_of_blocks,       \* IntVar
  time_duration,          \* DoubleVar
  selected_time_type,     \* IntVar
  selected_run_type,      \* IntVar
  arrays,                 \* the 14 per-block lists, by name
  selected_block_input,   \* IntVar: the block selected for editing (1-based)
  block_to_copy_from,     \* IntVar: the copy-from spinbox
  input_window,           \* "closed", "open", or "partial" (its construction raised)
  block_radio_buttons,    \* how many block radio buttons the form shows
  shown_block,            \* the block whose variables the entries edit (0: none)
  new_run_button,         \* TRUE: NORMAL, FALSE: DISABLED
  load_run_button,
  reset_button,
  save_button,
  export_button,
  plot_button,
  export_window,          \* TRUE: the export dialog is open (it holds the grab)
  plot_variables,         \* one group of nine IntVars per export dialog opened: the plots ticked
  block_check_buttons,    \* [n: how many check boxes, enabled: their state]
  plot_radio_buttons,     \* the plot selectors that are enabled
  selected_plot,          \* IntVar
  data_frame_image,       \* the ordinal of the image displayed
  input_json_dict,        \* the dictionary passed to the backend
  prefs_file,             \* tmp/seaqt_prefs.json: <<>> (absent) or <<document>>
  figures,                \* the plot images Figures/1.png .. 9.png that exist
  mat_files,              \* the solver files that exist in tmp
  last,                   \* what the last callback did
  inputs,                 \* entries typed, arrows clicked and archives picked so far
  launches                \* calls of start_data_process so far

config == <<number_of_blocks, time_duration, selected_time_type, selected_run_type, arrays>>

form == <<selected_block_input, block_to_copy_from, input_window, block_radio_buttons, shown_block>>

menu ==
  <<new_run_button, load_run_button, reset_button, save_button, export_button, plot_button,
    export_window, plot_variables>>

plotui == <<block_check_buttons, plot_radio_buttons, selected_plot, data_frame_image>>

disk == <<prefs_file, figures, mat_files>>

bounds == <<inputs, launches>>

vars == <<backend, config, form, menu, plotui, input_json_dict, disk, last, bounds>>

\* ------------------------------------------------------ the backend handler
\* The methods of MATLABBackendHandler.
MATLABBackendHandler == {"start_seaqt", "reset_seaqt", "plot_only", "get_results"}

\* A handler that provides the entry points SEAQTGui calls on self.backend.
ConformingBackendHandler ==
  {"run_seaqt", "run_seaqt_electron_only", "run_seaqt_phonon_only", "generate_plot"}

\* The entry point start_data_process calls for a run type ("" for none).
RunEntryPoint(run_type) ==
  CASE run_type = RunType_ELECTRON -> "run_seaqt_electron_only"
    [] run_type = RunType_PHONON -> "run_seaqt_phonon_only"
    [] run_type = RunType_BOTH -> "run_seaqt"
    [] OTHER -> ""

RunEntryPoints == {"run_seaqt", "run_seaqt_electron_only", "run_seaqt_phonon_only"}

\* --------------------------------------------------------------- helpers
Min(S) == CHOOSE x \in S : \A y \in S : x <= y

\* What a callback did: the method it ended in, how it ended ("ok", "rejected":
\* it reported an error and returned, "raised": an exception left it), the
\* message shown or the exception, the entry points it called on the backend,
\* and whether it wrote the preferences file.
Did(op, result, msg) ==
  [op |-> op, result |-> result, msg |-> msg, calls |-> <<>>, wrote |-> FALSE, copied |-> {}]

\* The user typed into an entry: no callback runs.
Idle == Did("", "ok", "")

\* list[k] for a 0-based Python index k (negative: from the end): the 1-based
\* position, or 0 when list[k] raises IndexError.
PyIndex(s, k) ==
  LET pos == IF k < 0 THEN Len(s) + k + 1 ELSE k + 1
  IN IF pos >= 1 /\ pos <= Len(s) THEN pos ELSE 0

\* list[:n] for n >= 0.
PySlice(s, n) == IF n < Len(s) THEN SubSeq(s, 1, n) ELSE s

\* The fields whose entries the block data window shows for a run type.
VisibleFields(run_type) ==
  SharedFields
    \o (IF IncludesElectron(run_type) THEN ElectronFields ELSE <<>>)
    \o (IF IncludesPhonon(run_type) THEN PhononFields ELSE <<>>)

\* ResizedArrays removing blocks at the front of the lists.
ResizedArraysFromFront(arr, new_list_size) ==
  LET old_list_size == Len(arr["block_sizes"])
      size_delta == new_list_size - old_list_size
  IN IF new_list_size < old_list_size
       THEN [f \in FieldSet |->
               SubSeq(arr[f], Len(arr[f]) - new_list_size + 1, Len(arr[f]))]
       ELSE IF new_list_size > old_list_size
         THEN [f \in FieldSet |-> arr[f] \o [i \in 1..size_delta |-> FreshVar(f)]]
         ELSE arr

\* update_number_of_blocks: the lists cut or extended to the block count; the
\* old size is that of block_sizes.
ResizedArrays(arr, new_list_size) ==
  LET old_list_size == Len(arr["block_sizes"])
      size_delta == new_list_size - old_list_size
  IN IF new_list_size < old_list_size
       THEN [f \in FieldSet |-> PySlice(arr[f], new_list_size)]
       ELSE IF new_list_size > old_list_size
         THEN [f \in FieldSet |-> arr[f] \o [i \in 1..size_delta |-> FreshVar(f)]]
         ELSE arr

\* update_block_data_window raises IndexError when the selected block is not
\* in a list an entry is bound to.
DataWindowRaises(selected, run_type, arr) ==
  \E i \in DOMAIN VisibleFields(run_type) :
     PyIndex(arr[VisibleFields(run_type)[i]], selected - 1) = 0

\* The entries of a block whose variables left the lists edit nothing.
StillShown(shown, arr) ==
  IF shown >= 1 /\ shown <= Len(arr["block_sizes"]) THEN shown ELSE 0

\* update_plot: the image displayed, and whether Export is enabled.
StatusImages ==
  {PlotNumber_DATA_NOT_LOADED, PlotNumber_DATA_PROCESSING,
   PlotNumber_DATA_PROCESSED_SUCCESSFULLY, PlotNumber_DATA_LOADED_SUCCESSFULLY,
   PlotNumber_ERROR}

ImageShown(filenum, figs) ==
  IF filenum \in figs \cup StatusImages THEN filenum ELSE PlotNumber_ERROR

\* ExportAfterPlot enabling Export for every plot ordinal, loaded or not.
ExportAfterAnyPlot(filenum, figs, export) ==
  IF filenum > 0 /\ filenum < 10 THEN TRUE ELSE export

ExportAfterPlot(filenum, figs, export) ==
  IF filenum \in figs \cup StatusImages /\ filenum > 0 /\ filenum < 10 THEN TRUE ELSE export

\* RadioButtonsFor enabling all nine selectors whatever the run type.
RadioButtonsForAnyRun(enable, run_type) == IF enable THEN 1..9 ELSE {}

\* update_plot_radio_buttons: the selectors enabled.
RadioButtonsFor(enable, run_type) ==
  IF ~enable THEN {}
  ELSE (IF IncludesElectron(run_type) THEN 1..5 ELSE {})
       \cup (IF IncludesPhonon(run_type) THEN 6..7 ELSE {})
       \cup (IF run_type = RunType_BOTH THEN 8..9 ELSE {})

\* The callback is running in the main window: no dialog holds the grab.
MainWindow == input_window = "closed" /\ ~export_window

\* A Python dict with no key.
EmptyDict == [k \in {} |-> 0]

\* dict[key] = value.
DictSet(d, key, value) ==
  [k \in DOMAIN d \cup {key} |-> IF k = key THEN value ELSE d[k]]

\* ------------------------------------------------------------------ Init
Handlers == {MATLABBackendHandler, ConformingBackendHandler}

Init ==
  /\ backend \in Handlers
  /\ number_of_blocks = DEFAULT_NUM_BLOCKS
  /\ time_duration = DEFAULT_TIME_DURATION
  /\ selected_time_type = DEFAULT_TIME_TYPE
  /\ selected_run_type = DEFAULT_RUN_TYPE
  /\ arrays = EmptyArrays
  /\ selected_block_input = 1
  /\ block_to_copy_from = 1
  /\ input_window = "closed"
  /\ block_radio_buttons = 0
  /\ shown_block = 0
  /\ new_run_button = TRUE
  /\ load_run_button = TRUE
  /\ reset_button = FALSE
  /\ save_button = FALSE
  /\ export_button = FALSE
  /\ plot_button = FALSE
  /\ export_window = FALSE
  /\ plot_variables = <<>>
  /\ block_check_buttons = [n |-> DEFAULT_NUM_BLOCKS, enabled |-> FALSE]
  /\ plot_radio_buttons = {}
  /\ selected_plot = PlotNumber_INVALID
  /\ data_frame_image = PlotNumber_DATA_NOT_LOADED
  /\ input_json_dict = EmptyDict
  /\ prefs_file = <<>>
  /\ figures = {}
  /\ mat_files = {}
  /\ last = Idle
  /\ inputs = 0
  /\ launches = 0

\* ------------------------------------------------------------ user inputs
\* The blocks whose radio button the user clicks.
BlockChoices == {1, DEFAULT_NUM_BLOCKS}

\* The values the user types into the block-count spinbox.
TypedCounts == {0, 1}

\* The values the user types into the copy-from spinbox.
TypedCopyFrom == {0, 2}

\* The texts the user types into, or picks for, a block field.
FieldValues(f) ==
  IF f \in StringFields THEN {"", "missing.xlsx"} ELSE {"", "0.0"}

\* The example data files, in the order import_default_settings looks for them.
ExampleFiles ==
  <<DEFAULT_ELECTRON_EV_FILENAME, DEFAULT_ELECTRON_DOS_FILENAME,
    DEFAULT_PHONON_EV_FILENAME, DEFAULT_PHONON_DOS_FILENAME>>

\* The files on disk a path of the form can name.
ExistingFiles == Range(ExampleFiles)

\* What the example data directory holds when import_default_settings runs.
ExampleDirectories ==
  {Range(ExampleFiles), Range(ExampleFiles) \ {DEFAULT_PHONON_DOS_FILENAME}}

\* --------------------------------------------------------- the input form
\* activate_input_data_window: the New button.  The window is built up to
\* the two update calls; an IndexError in update_block_data_window leaves it
\* without the widgets created after them (run type, import, Run, Cancel).
activate_input_data_window ==
  /\ new_run_button
  /\ MainWindow
  /\ launches < MaxLaunches
  /\ LET arr == ResizedArrays(arrays, number_of_blocks)
         raises == DataWindowRaises(selected_block_input, selected_run_type, arr)
     IN /\ arrays' = arr
        /\ block_radio_buttons' = number_of_blocks
        /\ input_window' = IF raises THEN "partial" ELSE "open"
        /\ shown_block' = IF raises THEN 0 ELSE selected_block_input
        /\ last' = IF raises
                     THEN Did("activate_input_data_window", "raised", "IndexError")
                     ELSE Idle
  /\ UNCHANGED <<backend, number_of_blocks, time_duration, selected_time_type,
                 selected_run_type, selected_block_input, block_to_copy_from,
                 menu, plotui, input_json_dict, disk, bounds>>

\* The spinbox arrows: the value moves by one inside from_..to, then the
\* command update_number_of_blocks runs.
SpinboxStep(value, delta) ==
  IF value + delta < SPINBOX_FROM THEN SPINBOX_FROM
  ELSE IF value + delta > SPINBOX_TO THEN SPINBOX_TO ELSE value + delta

update_number_of_blocks(delta) ==
  /\ input_window # "closed"
  /\ LET n == SpinboxStep(number_of_blocks, delta)
         arr == ResizedArrays(arrays, n)
     IN /\ inputs < MaxInputs
        /\ inputs' = inputs + 1
        /\ number_of_blocks' = n
        /\ arrays' = arr
        /\ block_radio_buttons' = n
        /\ shown_block' = StillShown(shown_block, arr)
  /\ last' = Idle
  /\ UNCHANGED <<backend, time_duration, selected_time_type, selected_run_type,
                 selected_block_input, block_to_copy_from, input_window,
                 menu, plotui, input_json_dict, disk, launches>>

\* A value typed into the block-count spinbox: the IntVar changes, no
\* command runs.
TypeNumberOfBlocks(n) ==
  /\ input_window # "closed"
  /\ inputs < MaxInputs
  /\ n # number_of_blocks
  /\ number_of_blocks' = n
  /\ inputs' = inputs + 1
  /\ last' = Idle
  /\ UNCHANGED <<backend, time_duration, selected_time_type, selected_run_type, arrays,
                 form, menu, plotui, input_json_dict, disk, launches>>

\* update_block_data_window, the command of the block radio buttons and of
\* the run type radio buttons, run with the value the button has set.
update_block_data_window(block, run_type) ==
  /\ input_window # "closed"
  /\ selected_block_input' = block
  /\ selected_run_type' = run_type
  /\ IF DataWindowRaises(block, run_type, arrays)
       THEN /\ shown_block' = 0
            /\ last' = Did("update_block_data_window", "raised", "IndexError")
       ELSE /\ shown_block' = block
            /\ last' = Idle
  /\ UNCHANGED <<backend, number_of_blocks, time_duration, selected_time_type, arrays,
                 block_to_copy_from, input_window, block_radio_buttons,
                 menu, plotui, input_json_dict, disk, bounds>>

\* A block radio button, with its command.
BlockRadioButton(block) ==
  /\ block <= block_radio_buttons
  /\ update_block_data_window(block, selected_run_type)

\* A run type radio button, with its command.
RunTypeRadioButton(run_type) ==
  /\ input_window = "open"
  /\ update_block_data_window(selected_block_input, run_type)

\* A text typed into an entry of the block shown (or a file picked for it).
EditField(f, text) ==
  /\ input_window # "closed"
  /\ shown_block # 0
  /\ f \in Range(VisibleFields(selected_run_type))
  /\ inputs < MaxInputs
  /\ text # arrays[f][shown_block]
  /\ arrays' = [arrays EXCEPT ![f][shown_block] = text]
  /\ inputs' = inputs + 1
  /\ last' = Idle
  /\ UNCHANGED <<backend, number_of_blocks, time_duration, selected_time_type,
                 selected_run_type, form, menu, plotui, input_json_dict, disk, launches>>

\* The run length entry and the time type radio buttons.
EditBaseParameters(duration, time_type) ==
  /\ input_window = "open"
  /\ inputs < MaxInputs
  /\ <<duration, time_type>> # <<time_duration, selected_time_type>>
  /\ time_duration' = duration
  /\ selected_time_type' = time_type
  /\ inputs' = inputs + 1
  /\ last' = Idle
  /\ UNCHANGED <<backend, number_of_blocks, selected_run_type, arrays,
                 form, menu, plotui, input_json_dict, disk, launches>>

\* A value typed into the copy-from spinbox.
TypeCopyFrom(n) ==
  /\ input_window # "closed"
  /\ inputs < MaxInputs
  /\ n # block_to_copy_from
  /\ block_to_copy_from' = n
  /\ inputs' = inputs + 1
  /\ last' = Idle
  /\ UNCHANGED <<backend, config, selected_block_input, input_window, block_radio_buttons,
                 shown_block, menu, plotui, input_json_dict, disk, launches>>

\* copy_block_input copies list by list; it stops at the first list in which
\* the destination or the source index is out of range (IndexError) or the
\* source DoubleVar holds no number (TclError).  [arr, exc]
RECURSIVE CopiedFields(_, _, _, _)
CopiedFields(fields, arr, to_block_index, from_block_index) ==
  IF fields = <<>> THEN [arr |-> arr, exc |-> ""]
  ELSE LET f == Head(fields)
           to == PyIndex(arr[f], to_block_index)
           from == PyIndex(arr[f], from_block_index)
       IN IF to = 0 \/ from = 0 THEN [arr |-> arr, exc |-> "IndexError"]
          ELSE IF GetRaises(f, arr[f][from]) THEN [arr |-> arr, exc |-> "TclError"]
          ELSE CopiedFields(Tail(fields), [arr EXCEPT ![f][to] = arr[f][from]],
                            to_block_index, from_block_index)

copy_block_input ==
  /\ input_window # "closed"
  /\ LET c == CopiedFields(AllFields, arrays, selected_block_input - 1, block_to_copy_from - 1)
     IN /\ arrays' = c.arr
        /\ IF c.exc # ""
             THEN /\ shown_block' = shown_block
                  /\ last' = Did("copy_block_input", "raised", c.exc)
             ELSE IF DataWindowRaises(selected_block_input, selected_run_type, c.arr)
               THEN /\ shown_block' = 0
                    /\ last' = Did("copy_block_input", "raised", "IndexError")
               ELSE /\ shown_block' = selected_block_input
                    /\ last' = Idle
  /\ UNCHANGED <<backend, number_of_blocks, time_duration, selected_time_type,
                 selected_run_type, selected_block_input, block_to_copy_from, input_window,
                 block_radio_buttons, menu, plotui, input_json_dict, disk, bounds>>

\* The values import_default_settings sets in block i (0-based) of num_blocks;
\* the tau paths and the electron group velocity keep their value.
DefaultValue(f, i, num_blocks, old) ==
  CASE f = "block_sizes" -> DEFAULT_BLOCK_SIZE
    [] f = "fermi_energies" -> DEFAULT_FERMI
    [] f = "block_temperatures" ->
         IF 2 * i < num_blocks THEN DEFAULT_BLOCK_TEMP_A ELSE DEFAULT_BLOCK_TEMP_B
    [] f = "electron_ev_file_paths" -> DEFAULT_ELECTRON_EV_FILENAME
    [] f = "electron_dos_file_paths" -> DEFAULT_ELECTRON_DOS_FILENAME
    [] f = "electron_relaxation_times" -> DEFAULT_ELECTRON_RELAXATION
    [] f = "electron_effective_masses" -> DEFAULT_ELECTRON_EFFECTIVE_MASS
    [] f = "phonon_ev_file_paths" -> DEFAULT_PHONON_EV_FILENAME
    [] f = "phonon_dos_file_paths" -> DEFAULT_PHONON_DOS_FILENAME
    [] f = "phonon_group_velocities" -> DEFAULT_PHONON_VELOCITIES
    [] f = "phonon_relaxation_times" -> DEFAULT_PHONON_RELAXATION
    [] OTHER -> old

\* The lists import_default_settings assigns in each round of its loop, in
\* the order of the assignments.
ImportOrder ==
  <<"block_sizes", "fermi_energies", "block_temperatures",
    "electron_ev_file_paths", "electron_dos_file_paths",
    "electron_relaxation_times", "electron_effective_masses",
    "phonon_ev_file_paths", "phonon_dos_file_paths",
    "phonon_group_velocities", "phonon_relaxation_times">>

\* A loop `for i in range(rounds)` that indexes the lists `order` (each of
\* length len[f]) at i, one after the other: [i, k], the round (1-based) and
\* the position in `order` of the first index out of range; [0, 0] if none.
FirstOutOfRange(order, len, rounds) ==
  LET short == {k \in DOMAIN order : len[order[k]] < rounds}
  IN IF short = {} THEN [i |-> 0, k |-> 0]
     ELSE LET i == 1 + Min({len[order[k]] : k \in short})
          IN [i |-> i, k |-> Min({k \in short : len[order[k]] < i})]

\* How many rounds of such a loop reached list number k of `order`.
RoundsDone(stop, k, rounds) ==
  IF stop.i = 0 THEN rounds ELSE IF k < stop.k THEN stop.i ELSE stop.i - 1

PositionIn(order, f) == Min({k \in DOMAIN order : order[k] = f})

\* The loop of import_default_settings over the blocks.  [arr, exc]
DefaultArrays(arr, num_blocks) ==
  LET stop == FirstOutOfRange(ImportOrder, [f \in FieldSet |-> Len(arr[f])], num_blocks)
      done(f) == IF f \in Range(ImportOrder)
                   THEN RoundsDone(stop, PositionIn(ImportOrder, f), num_blocks) ELSE 0
  IN [arr |-> [f \in FieldSet |->
                 [i \in DOMAIN arr[f] |->
                    IF i <= done(f) THEN DefaultValue(f, i - 1, num_blocks, arr[f][i])
                    ELSE arr[f][i]]],
      exc |-> IF stop.i = 0 THEN "" ELSE "IndexError"]

\* The first example file that is missing ("" when all are there).
RECURSIVE FirstMissing(_, _)
FirstMissing(files, directory) ==
  IF files = <<>> THEN ""
  ELSE IF Head(files) \notin directory THEN Head(files)
  ELSE FirstMissing(Tail(files), directory)

\* import_default_settings: the button Import Default Data and Parameters.
import_default_settings(directory) ==
  /\ input_window = "open"
  /\ LET arr == ResizedArrays(arrays, DEFAULT_NUM_BLOCKS)
         raises == DataWindowRaises(selected_block_input, DEFAULT_RUN_TYPE, arr)
         missing == FirstMissing(ExampleFiles, directory)
     IN /\ number_of_blocks' = DEFAULT_NUM_BLOCKS
        /\ block_radio_buttons' = DEFAULT_NUM_BLOCKS
        /\ time_duration' = DEFAULT_TIME_DURATION
        /\ selected_time_type' = DEFAULT_TIME_TYPE
        /\ selected_run_type' = DEFAULT_RUN_TYPE
        /\ IF raises
             THEN /\ arrays' = arr
                  /\ shown_block' = 0
                  /\ last' = Did("import_default_settings", "raised", "IndexError")
             ELSE IF missing # ""
               THEN /\ arrays' = arr
                    /\ shown_block' = selected_block_input
                    /\ last' = Did("import_default_settings", "rejected", missing)
               ELSE LET d == DefaultArrays(arr, DEFAULT_NUM_BLOCKS)
                    IN /\ arrays' = d.arr
                       /\ shown_block' = selected_block_input
                       /\ last' = IF d.exc # ""
                                    THEN Did("import_default_settings", "raised", d.exc)
                                    ELSE Did("import_default_settings", "ok", "")
  /\ UNCHANGED <<backend, selected_block_input, block_to_copy_from, input_window,
                 menu, plotui, input_json_dict, disk, bounds>>

\* cancel_data_input closing the form with the edits kept.
cancel_data_input_keeps_edits ==
  /\ input_window = "open"
  /\ block_to_copy_from' = 1
  /\ plot_radio_buttons' = RadioButtonsFor(FALSE, DEFAULT_RUN_TYPE)
  /\ selected_plot' = PlotNumber_INVALID
  /\ block_check_buttons' = [n |-> number_of_blocks, enabled |-> FALSE]
  /\ input_window' = "closed"
  /\ shown_block' = 0
  /\ last' = Idle
  /\ UNCHANGED <<backend, config, selected_block_input, block_radio_buttons, menu,
                 data_frame_image, input_json_dict, disk, bounds>>

\* cancel_data_input: the Cancel button of the form.
cancel_data_input ==
  /\ input_window = "open"
  /\ number_of_blocks' = DEFAULT_NUM_BLOCKS
  /\ time_duration' = DEFAULT_TIME_DURATION
  /\ selected_time_type' = DEFAULT_TIME_TYPE
  /\ selected_run_type' = DEFAULT_RUN_TYPE
  /\ block_to_copy_from' = 1
  /\ arrays' = EmptyArrays
  /\ plot_radio_buttons' = RadioButtonsFor(FALSE, DEFAULT_RUN_TYPE)
  /\ selected_plot' = PlotNumber_INVALID
  /\ block_check_buttons' = [n |-> DEFAULT_NUM_BLOCKS, enabled |-> FALSE]
  /\ input_window' = "closed"
  /\ shown_block' = 0
  /\ last' = Idle
  /\ UNCHANGED <<backend, selected_block_input, block_radio_buttons, menu,
                 data_frame_image, input_json_dict, disk, bounds>>

\* ------------------------------------------------------------ validation
\* ValidationChecks looking at the electron relaxation times before the
\* electron DOS paths.
ValidationChecksRelaxationFirst(run_type) ==
  << [field |-> "block_sizes", category |-> "Block Size"],
     [field |-> "block_temperatures", category |-> "Block Temperature"],
     [field |-> "fermi_energies", category |-> "Fermi Energy"] >>
  \o (IF IncludesElectron(run_type)
        THEN << [field |-> "electron_ev_file_paths", category |-> "Electron EV File Path"],
                [field |-> "electron_relaxation_times", category |-> "Electron Relaxation Time"],
                [field |-> "electron_dos_file_paths", category |-> "Electron DOS File Path"],
                [field |-> "electron_effective_masses", category |-> "Electron Effective Mass"] >>
        ELSE <<>>)
  \o (IF IncludesPhonon(run_type)
        THEN << [field |-> "phonon_ev_file_paths", category |-> "Phonon EV File Path"],
                [field |-> "phonon_dos_file_paths", category |-> "Phonon DOS File Path"],
                [field |-> "phonon_group_velocities", category |-> "Phonon Group Velocities"],
                [field |-> "phonon_relaxation_times", category |-> "Phonon Relaxation Time"] >>
        ELSE <<>>)

\* The per-block checks of confirm_data_input_and_run for a run type, in the
\* order of the code, each with the category its message names.
ValidationChecks(run_type) ==
  << [field |-> "block_sizes", category |-> "Block Size"],
     [field |-> "block_temperatures", category |-> "Block Temperature"],
     [field |-> "fermi_energies", category |-> "Fermi Energy"] >>
  \o (IF IncludesElectron(run_type)
        THEN << [field |-> "electron_ev_file_paths", category |-> "Electron EV File Path"],
                [field |-> "electron_dos_file_paths", category |-> "Electron DOS File Path"],
                [field |-> "electron_relaxation_times", category |-> "Electron Relaxation Time"],
                [field |-> "electron_effective_masses", category |-> "Electron Effective Mass"] >>
        ELSE <<>>)
  \o (IF IncludesPhonon(run_type)
        THEN << [field |-> "phonon_ev_file_paths", category |-> "Phonon EV File Path"],
                [field |-> "phonon_dos_file_paths", category |-> "Phonon DOS File Path"],
                [field |-> "phonon_group_velocities", category |-> "Phonon Group Velocities"],
                [field |-> "phonon_relaxation_times", category |-> "Phonon Relaxation Time"] >>
        ELSE <<>>)

\* The loops over the lists: the category of the first falsy entry, "TclError"
\* when get() raises on it, "" when every check passes.
RECURSIVE FirstViolation(_, _)
FirstViolation(checks, arr) ==
  IF checks = <<>> THEN ""
  ELSE LET f == Head(checks).field
           bad == {i \in DOMAIN arr[f] : Falsy(arr[f][i])}
       IN IF bad = {} THEN FirstViolation(Tail(checks), arr)
          ELSE IF GetRaises(f, arr[f][Min(bad)]) THEN "TclError"
          ELSE Head(checks).category

\* The checks of confirm_data_input_and_run.
Validation(num_blocks, duration, run_type, arr) ==
  IF num_blocks = 0 \/ duration = 0 \/ run_type = 0 THEN "Base Parameter"
  ELSE FirstViolation(ValidationChecks(run_type), arr)

\* ------------------------------------------------------- the document
\* The key of the preferences document that holds a per-block list.
KeyOf(f) ==
  CASE f = "electron_ev_file_paths" -> "electron_ev_paths"
    [] f = "electron_dos_file_paths" -> "electron_dos_paths"
    [] f = "electron_tau_file_paths" -> "electron_tau_paths"
    [] f = "phonon_ev_file_paths" -> "phonon_ev_paths"
    [] f = "phonon_dos_file_paths" -> "phonon_dos_paths"
    [] f = "phonon_tau_file_paths" -> "phonon_tau_paths"
    [] OTHER -> f

\* [x.get() for x in list] raises TclError on a DoubleVar that holds no number.
ListRaises(f, list) == \E i \in DOMAIN list : GetRaises(f, list[i])

\* start_data_process assigns the lists of the run type to the dictionary one
\* by one and stops at the first that raises.  [dict, exc]
RECURSIVE WithLists(_, _, _)
WithLists(d, fields, arr) ==
  IF fields = <<>> THEN [dict |-> d, exc |-> ""]
  ELSE IF ListRaises(Head(fields), arr[Head(fields)]) THEN [dict |-> d, exc |-> "TclError"]
  ELSE WithLists(DictSet(d, KeyOf(Head(fields)), arr[Head(fields)]), Tail(fields), arr)

\* WithBaseParameters writing the default block count, not the spinbox's.
WithDefaultBlockCount(d, num_blocks, duration, time_type, run_type) ==
  DictSet(DictSet(DictSet(DictSet(d, "number_of_blocks", DEFAULT_NUM_BLOCKS),
                          "time_duration", duration),
                  "time_type", time_type),
          "run_type", run_type)

\* The four base parameters of the document.
WithBaseParameters(d, num_blocks, duration, time_type, run_type) ==
  DictSet(DictSet(DictSet(DictSet(d, "number_of_blocks", num_blocks),
                          "time_duration", duration),
                  "time_type", time_type),
          "run_type", run_type)

\* ------------------------------------------------------------- the launch
BackendErrorMessage == "SEAQT Backend Encountered an Error"

\* The solver files a run of the engine leaves in tmp.
SolverFiles == {SEAQT_RUN_FILENAMES[1], SEAQT_RUN_FILENAMES[2]}

\* unlock_after_run without the line that unlocks Save.
unlock_after_run_without_save ==
  /\ new_run_button' = FALSE
  /\ load_run_button' = FALSE
  /\ plot_button' = TRUE
  /\ reset_button' = TRUE
  /\ block_check_buttons' = [n |-> number_of_blocks, enabled |-> TRUE]
  /\ UNCHANGED <<save_button, export_button, export_window, plot_variables>>

\* start_data_process after the engine returned: new and load are blocked,
\* replot, reset and save are unlocked, the block check boxes are enabled.
unlock_after_run ==
  /\ new_run_button' = FALSE
  /\ load_run_button' = FALSE
  /\ plot_button' = TRUE
  /\ reset_button' = TRUE
  /\ save_button' = TRUE
  /\ block_check_buttons' = [n |-> number_of_blocks, enabled |-> TRUE]
  /\ UNCHANGED <<export_button, export_window, plot_variables>>

\* backend_error falling through to the lines that unlock Reset.
backend_error_unlocks_reset ==
  /\ data_frame_image' = ImageShown(PlotNumber_ERROR, figures)
  /\ reset_button' = TRUE
  /\ UNCHANGED <<new_run_button, load_run_button, save_button, export_button, plot_button,
                 export_window, plot_variables, block_check_buttons, figures, mat_files>>

\* start_data_process when the call on the backend raised: the error is shown.
backend_error ==
  /\ data_frame_image' = ImageShown(PlotNumber_ERROR, figures)
  /\ UNCHANGED <<menu, block_check_buttons, figures, mat_files>>

\* start_data_process, called with the form closed and the processing image
\* shown.  can_write: open() of the preferences file succeeds; engine_ok: the
\* engine's entry point, once called, returns.
start_data_process(can_write, engine_ok) ==
  LET run_type == selected_run_type
      built == WithLists(WithBaseParameters(input_json_dict, number_of_blocks, time_duration,
                                            selected_time_type, run_type),
                         VisibleFields(run_type), arrays)
      entry == RunEntryPoint(run_type)
      op == "start_data_process"
  IN /\ launches' = launches + 1
     /\ input_json_dict' = built.dict
     /\ IF built.exc # ""
          THEN \* a list comprehension raised: nothing is written
               /\ last' = Did(op, "raised", built.exc)
               /\ data_frame_image' = ImageShown(PlotNumber_DATA_PROCESSING, figures)
               /\ UNCHANGED <<menu, block_check_buttons, disk>>
          ELSE IF ~can_write
            THEN \* open() raised, outside any try
                 /\ last' = Did(op, "raised", "OSError")
                 /\ data_frame_image' = ImageShown(PlotNumber_DATA_PROCESSING, figures)
                 /\ UNCHANGED <<menu, block_check_buttons, disk>>
            ELSE /\ prefs_file' = <<built.dict>>
                 /\ IF entry \notin backend \/ ~engine_ok
                      THEN \* AttributeError or an error of the engine: the bare except
                           /\ last' = [Did(op, "rejected", BackendErrorMessage)
                                         EXCEPT !.wrote = TRUE, !.calls = <<entry>>]
                           /\ backend_error
                      ELSE /\ last' = [Did(op, "ok", "")
                                         EXCEPT !.wrote = TRUE, !.calls = <<entry>>]
                           /\ data_frame_image' =
                                ImageShown(PlotNumber_DATA_PROCESSED_SUCCESSFULLY, figures)
                           /\ unlock_after_run
                           /\ mat_files' = mat_files \cup SolverFiles
                           /\ UNCHANGED figures

\* confirm_data_input_and_run: the Run button of the form.
confirm_data_input_and_run(can_write, engine_ok) ==
  /\ input_window = "open"
  /\ LET violation == Validation(number_of_blocks, time_duration, selected_run_type, arrays)
     IN IF violation = "TclError"
          THEN /\ last' = Did("confirm_data_input_and_run", "raised", "TclError")
               /\ UNCHANGED <<input_window, shown_block, menu, block_check_buttons,
                              data_frame_image, input_json_dict, disk, launches>>
          ELSE IF violation # ""
            THEN /\ last' = Did("confirm_data_input_and_run", "rejected", violation)
                 /\ UNCHANGED <<input_window, shown_block, menu, block_check_buttons,
                                data_frame_image, input_json_dict, disk, launches>>
            ELSE /\ launches < MaxLaunches
                 /\ input_window' = "closed"
                 /\ shown_block' = 0
                 /\ start_data_process(can_write, engine_ok)
  /\ UNCHANGED <<backend, config, selected_block_input, block_to_copy_from,
                 block_radio_buttons, plot_radio_buttons, selected_plot, inputs>>

\* --------------------------------------------------------------- loading
\* The document of a run of num_blocks blocks that holds the default values.
DefaultDocument(num_blocks, run_type) ==
  LET arr == [f \in FieldSet |->
                [i \in 1..num_blocks |-> DefaultValue(f, i - 1, num_blocks, FreshVar(f))]]
  IN WithLists(WithBaseParameters(EmptyDict, num_blocks, DEFAULT_TIME_DURATION,
                                  DEFAULT_TIME_TYPE, run_type),
               VisibleFields(run_type), arr).dict

\* dict without a key.
DictDel(d, key) == [k \in DOMAIN d \ {key} |-> d[k]]

\* How many blocks the archives picked for loading describe.
ArchiveBlocks == 2

\* The documents found in the archives the user picks.
ArchiveDocuments ==
  LET both == DefaultDocument(ArchiveBlocks, RunType_BOTH)
  IN { both,
       DefaultDocument(ArchiveBlocks, RunType_ELECTRON),
       DefaultDocument(ArchiveBlocks, RunType_PHONON),
       DictDel(both, "number_of_blocks"),
       DictDel(both, "run_type"),
       DictDel(both, "time_duration"),
       DictDel(both, "time_type"),
       DictDel(DefaultDocument(0, RunType_BOTH), "block_sizes"),
       DictDel(both, "phonon_group_velocities"),
       DictSet(both, "electron_dos_paths", PySlice(both["electron_dos_paths"], 1)),
       DictSet(both, "block_sizes", both["block_sizes"] \o <<DEFAULT_BLOCK_SIZE>>),
       DictSet(DictSet(DictSet(both, "electron_dos_paths", <<DEFAULT_ELECTRON_DOS_FILENAME, "">>),
                       "electron_relaxation_times", <<"0.0", DEFAULT_ELECTRON_RELAXATION>>),
               "phonon_relaxation_times", PySlice(both["phonon_relaxation_times"], 1)) }

\* The archives the user picks: the members they hold and the document.
Archives ==
  {[members |-> Range(SEAQT_RUN_FILENAMES), doc |-> d] : d \in ArchiveDocuments}
  \cup {[members |-> Range(SEAQT_RUN_FILENAMES) \ {SEAQT_RUN_FILENAMES[k]},
         doc |-> DefaultDocument(ArchiveBlocks, RunType_BOTH)] : k \in DOMAIN SEAQT_RUN_FILENAMES}

\* Extracted taking every name for a member of the archive.
ExtractedUnchecked(names, members) == Range(names)

\* zf.extract for each of SEAQT_RUN_FILENAMES in turn: the members extracted
\* before the first that is missing.
RECURSIVE Extracted(_, _)
Extracted(names, members) ==
  IF names = <<>> \/ Head(names) \notin members THEN {}
  ELSE {Head(names)} \cup Extracted(Tail(names), members)

\* The scalars of a document that load_previous_run reads, in its order: the
\* first whose key is missing ("" when none is).
MissingScalar(doc) ==
  IF "number_of_blocks" \notin DOMAIN doc THEN "number_of_blocks"
  ELSE IF "run_type" \notin DOMAIN doc THEN "run_type"
  ELSE IF "time_duration" \notin DOMAIN doc THEN "time_duration"
  ELSE IF "time_type" \notin DOMAIN doc THEN "time_type"
  ELSE ""

\* The loop of load_previous_run over the blocks: each list of the run type
\* receives one entry of the document per round, until a key is missing or an
\* index is out of range.  [arr, exc]
LoadedArrays(doc, num_blocks, run_type) ==
  LET order == VisibleFields(run_type)
      len == [f \in FieldSet |->
                IF KeyOf(f) \in DOMAIN doc THEN Len(doc[KeyOf(f)]) ELSE 0]
      stop == FirstOutOfRange(order, len, num_blocks)
      done(f) == IF f \in Range(order)
                   THEN RoundsDone(stop, PositionIn(order, f), num_blocks) ELSE 0
  IN [arr |-> [f \in FieldSet |-> [i \in 1..done(f) |-> doc[KeyOf(f)][i]]],
      exc |-> IF stop.i = 0 THEN ""
              ELSE IF KeyOf(order[stop.k]) \in DOMAIN doc THEN "IndexError" ELSE "KeyError"]

\* lock_after_load without the line that disables New.
lock_after_load_keeps_new ==
  /\ load_run_button' = FALSE
  /\ save_button' = FALSE
  /\ reset_button' = TRUE
  /\ plot_button' = TRUE
  /\ UNCHANGED <<new_run_button, export_button, export_window, plot_variables>>

\* load_previous_run after the parameters were read: new, load and save are
\* disabled, reset and replot are enabled.
lock_after_load ==
  /\ new_run_button' = FALSE
  /\ load_run_button' = FALSE
  /\ save_button' = FALSE
  /\ reset_button' = TRUE
  /\ plot_button' = TRUE
  /\ UNCHANGED <<export_button, export_window, plot_variables>>

UnpackErrorMessage == "Failed to unpack SEAQT archive"

ReadErrorMessage == "Failed to read parameters from preferences file"

\* load_previous_run: the Load button.  picked: a file was chosen.
load_previous_run(picked, archive) ==
  LET op == "load_previous_run"
      files == Extracted(SEAQT_RUN_FILENAMES, archive.members)
      doc == archive.doc
      missing == MissingScalar(doc)
      read_error == [Did(op, "rejected", ReadErrorMessage) EXCEPT !.wrote = TRUE]
  IN /\ load_run_button
     /\ MainWindow
     /\ UNCHANGED <<backend, form, figures, launches>>
     /\ IF ~picked
          THEN /\ last' = Did(op, "rejected", "No Archive File Selected")
               /\ UNCHANGED <<config, menu, plotui, input_json_dict, prefs_file, mat_files,
                              inputs>>
          ELSE /\ inputs < MaxInputs
               /\ inputs' = inputs + 1
               /\ mat_files' = mat_files \cup (files \cap SolverFiles)
               /\ IF files # Range(SEAQT_RUN_FILENAMES)
                    THEN /\ last' = Did(op, "rejected", UnpackErrorMessage)
                         /\ UNCHANGED <<config, menu, plotui, input_json_dict, prefs_file>>
                    ELSE /\ prefs_file' = <<doc>>
                         /\ input_json_dict' = doc
                         /\ IF missing \in {"number_of_blocks", "run_type"}
                              THEN /\ last' = read_error
                                   /\ UNCHANGED <<config, menu, plotui>>
                              ELSE /\ number_of_blocks' = doc["number_of_blocks"]
                                   /\ selected_run_type' = doc["run_type"]
                                   /\ IF missing # ""
                                        THEN /\ time_duration' =
                                                  IF missing = "time_duration" THEN time_duration
                                                  ELSE doc["time_duration"]
                                             /\ last' = read_error
                                             /\ UNCHANGED <<selected_time_type, arrays, menu,
                                                            plotui>>
                                        ELSE LET l == LoadedArrays(doc, doc["number_of_blocks"],
                                                                   doc["run_type"])
                                             IN /\ time_duration' = doc["time_duration"]
                                                /\ selected_time_type' = doc["time_type"]
                                                /\ arrays' = l.arr
                                                /\ IF l.exc # ""
                                                     THEN /\ last' = read_error
                                                          /\ UNCHANGED <<menu, plotui>>
                                                     ELSE /\ last' = [Did(op, "ok", "")
                                                                        EXCEPT !.wrote = TRUE]
                                                          /\ lock_after_load
                                                          /\ plot_radio_buttons' =
                                                               RadioButtonsFor(TRUE, doc["run_type"])
                                                          /\ selected_plot' = PlotNumber_INVALID
                                                          /\ block_check_buttons' =
                                                               [n |-> doc["number_of_blocks"],
                                                                enabled |-> TRUE]
                                                          /\ data_frame_image' = ImageShown(
                                                               PlotNumber_DATA_LOADED_SUCCESSFULLY,
                                                               figures)

\* ------------------------------------------------------- the main window
\* The block check boxes ticked when Plot is clicked (0-based block indexes).
Selections == {<<>>, <<0>>}

\* The plot images generate_plot leaves in Figures for a run type.
PlotsOf(run_type) == RadioButtonsFor(TRUE, run_type)

\* replot going on whatever the selection holds.
AnySelectionAccepted(selected_blocks) == FALSE

\* replot: `len(self.selected_blocks) == 0`.
NoBlockSelected(selected_blocks) == Len(selected_blocks) = 0

\* CanTick for check boxes that can be ticked while disabled.
CanTickDisabled(selected_blocks) ==
  \A i \in Range(selected_blocks) : i < block_check_buttons.n

\* update_plot_check_buttons: the user can tick the boxes of selected_blocks;
\* there is one box per block, and a disabled box cannot be ticked.
CanTick(selected_blocks) ==
  \A i \in Range(selected_blocks) : block_check_buttons.enabled /\ i < block_check_buttons.n

\* replot: the Plot button.  selected_blocks: the indexes of the ticked boxes.
replot(selected_blocks, can_write, engine_ok) ==
  LET op == "replot"
      d == DictSet(input_json_dict, "selected_subs", selected_blocks)
      run_type == selected_run_type
      figs == figures \cup PlotsOf(run_type)
      plot == IF IncludesElectron(run_type) THEN PlotNumber_ELECTRON_TEMPERATURE
              ELSE PlotNumber_PHONON_TEMPERATURE
  IN /\ plot_button
     /\ MainWindow
     /\ CanTick(selected_blocks)
     /\ UNCHANGED <<backend, config, form, new_run_button, load_run_button, reset_button,
                    save_button, plot_button, export_window, plot_variables, block_check_buttons, mat_files,
                    bounds>>
     /\ IF NoBlockSelected(selected_blocks)
          THEN /\ last' = Did(op, "rejected", "No Block(s) Selected")
               /\ UNCHANGED <<export_button, plot_radio_buttons, selected_plot,
                              data_frame_image, input_json_dict, prefs_file, figures>>
          ELSE /\ input_json_dict' = d
               /\ IF ~can_write
                    THEN /\ last' = Did(op, "rejected", "Failed to modify preferences file")
                         /\ UNCHANGED <<export_button, plot_radio_buttons, selected_plot,
                                        data_frame_image, prefs_file, figures>>
                    ELSE /\ prefs_file' = <<d>>
                         /\ IF "generate_plot" \notin backend \/ ~engine_ok
                              THEN /\ last' = [Did(op, "rejected", BackendErrorMessage)
                                                 EXCEPT !.wrote = TRUE,
                                                        !.calls = <<"generate_plot">>]
                                   /\ UNCHANGED <<export_button, plot_radio_buttons,
                                                  selected_plot, data_frame_image, figures>>
                              ELSE /\ last' = [Did(op, "ok", "")
                                                 EXCEPT !.wrote = TRUE,
                                                        !.calls = <<"generate_plot">>]
                                   /\ figures' = figs
                                   /\ data_frame_image' = ImageShown(plot, figs)
                                   /\ export_button' = ExportAfterPlot(plot, figs, export_button)
                                   /\ plot_radio_buttons' = RadioButtonsFor(TRUE, run_type)
                                   /\ selected_plot' = PlotNumber_INVALID

\* The plot selectors the user clicks.
PlotChoices == {PlotNumber_ELECTRON_TEMPERATURE, PlotNumber_PHONON_TEMPERATURE}

\* A plot selector, with its command update_plot.
PlotRadioButton(filenum) ==
  /\ MainWindow
  /\ filenum \in plot_radio_buttons
  /\ selected_plot' = filenum
  /\ data_frame_image' = ImageShown(filenum, figures)
  /\ export_button' = ExportAfterPlot(filenum, figures, export_button)
  /\ last' = Idle
  /\ UNCHANGED <<backend, config, form, new_run_button, load_run_button, reset_button,
                 save_button, plot_button, export_window, plot_variables, block_check_buttons,
                 plot_radio_buttons, input_json_dict, disk, bounds>>

\* clear_artifacts leaving the solver files in tmp.
clear_plots_only ==
  /\ figures' = {}
  /\ UNCHANGED mat_files

\* reset_data_process: clear_matlab_meta() and clear_plots().
clear_artifacts ==
  /\ figures' = {}
  /\ mat_files' = {}

\* lock_after_reset without the line that disables Save.
lock_after_reset_keeps_save ==
  /\ new_run_button' = TRUE
  /\ load_run_button' = TRUE
  /\ reset_button' = FALSE
  /\ export_button' = FALSE
  /\ UNCHANGED save_button

\* reset_data_process: new and load are enabled, reset, save and export are
\* disabled.
lock_after_reset ==
  /\ new_run_button' = TRUE
  /\ load_run_button' = TRUE
  /\ reset_button' = FALSE
  /\ save_button' = FALSE
  /\ export_button' = FALSE

\* reset_data_process: the Reset button.  user_choice: the answer to askyesno.
reset_data_process(user_choice) ==
  /\ reset_button
  /\ MainWindow
  /\ IF user_choice
       THEN /\ number_of_blocks' = DEFAULT_NUM_BLOCKS
            /\ time_duration' = DEFAULT_TIME_DURATION
            /\ selected_time_type' = DEFAULT_TIME_TYPE
            /\ selected_run_type' = DEFAULT_RUN_TYPE
            /\ block_to_copy_from' = 1
            /\ arrays' = EmptyArrays
            /\ plot_radio_buttons' = RadioButtonsFor(FALSE, DEFAULT_RUN_TYPE)
            /\ selected_plot' = PlotNumber_INVALID
            /\ block_check_buttons' = [n |-> DEFAULT_NUM_BLOCKS, enabled |-> FALSE]
            /\ data_frame_image' = ImageShown(PlotNumber_DATA_NOT_LOADED, figures)
            /\ lock_after_reset
            /\ clear_artifacts
            /\ last' = Did("reset_data_process", "ok", "")
            /\ UNCHANGED <<plot_button, export_window, plot_variables, selected_block_input, input_window,
                           block_radio_buttons, shown_block, prefs_file>>
       ELSE /\ last' = Did("reset_data_process", "rejected", "")
            /\ UNCHANGED <<config, form, menu, plotui, disk>>
  /\ UNCHANGED <<backend, input_json_dict, bounds>>

\* save_data disabling Save once the archive is written.
save_data_once(named, can_write) ==
  /\ save_button
  /\ MainWindow
  /\ last' = IF ~named THEN Did("save_data", "rejected", "No Archive File Selected")
             ELSE IF ~can_write \/ prefs_file = <<>> \/ ~(SolverFiles \subseteq mat_files)
               THEN Did("save_data", "rejected", "Failed to create SEAQT archive")
               ELSE Did("save_data", "ok", "")
  /\ save_button' = (~named \/ ~can_write)
  /\ UNCHANGED <<backend, config, form, new_run_button, load_run_button, reset_button,
                 export_button, plot_button, export_window, plot_variables, plotui, input_json_dict, disk,
                 bounds>>

\* save_data: the Save button.  named: a file name was chosen; can_write: the
\* archive can be created.
save_data(named, can_write) ==
  /\ save_button
  /\ MainWindow
  /\ last' = IF ~named THEN Did("save_data", "rejected", "No Archive File Selected")
             ELSE IF ~can_write \/ prefs_file = <<>> \/ ~(SolverFiles \subseteq mat_files)
               THEN Did("save_data", "rejected", "Failed to create SEAQT archive")
               ELSE Did("save_data", "ok", "")
  /\ UNCHANGED <<backend, config, form, menu, plotui, input_json_dict, disk, bounds>>

\* export_data: the Export button opens the export dialog; nine new IntVars,
\* all 0, are appended to plot_variables.
export_data ==
  /\ export_button
  /\ MainWindow
  /\ Len(plot_variables) < MaxExports
  /\ export_window' = TRUE
  /\ plot_variables' = Append(plot_variables, {})
  /\ last' = Idle
  /\ UNCHANGED <<backend, config, form, new_run_button, load_run_button, reset_button,
                 save_button, export_button, plot_button, plotui, input_json_dict, disk, bounds>>

\* The plot check boxes the user leaves ticked in the export dialog (by image
\* number).
ExportSelections == {{}, {PlotNumber_ELECTRON_TEMPERATURE}, {PlotNumber_PHONON_TEMPERATURE}}

\* The check boxes of the open export dialog are ticked and unticked: they are
\* bound to the IntVars appended when this dialog was opened.
PlotCheckbuttons(ticked) ==
  /\ export_window
  /\ plot_variables[Len(plot_variables)] # ticked
  /\ inputs < MaxInputs
  /\ inputs' = inputs + 1
  /\ plot_variables' = [plot_variables EXCEPT ![Len(plot_variables)] = ticked]
  /\ last' = Idle
  /\ UNCHANGED <<backend, config, form, new_run_button, load_run_button, reset_button,
                 save_button, export_button, plot_button, export_window, plotui,
                 input_json_dict, disk, launches>>

\* confirm_data_export's tally: plot_variables[i] for i in range(len(PLOT_NAMES)),
\* the first nine IntVars of the list.
TalliedPlots(variables) == variables[1]

\* confirm_data_export: the Export button of the export dialog.  has_directory:
\* export_directory is not empty; copyfile fails for a plot image that is not
\* there, the others are copied.
confirm_data_export(has_directory) ==
  /\ export_window
  /\ LET selected_plots == TalliedPlots(plot_variables)
         failed_plots == selected_plots \ figures
     IN IF ~has_directory
          THEN /\ last' = Did("confirm_data_export", "rejected", "No Destination Directory Specified")
               /\ UNCHANGED export_window
          ELSE IF selected_plots = {}
            THEN /\ last' = Did("confirm_data_export", "rejected", "No Plot(s) Selected")
                 /\ UNCHANGED export_window
            ELSE IF failed_plots # {}
              THEN /\ last' = [Did("confirm_data_export", "rejected", "Failed to save plots")
                                 EXCEPT !.copied = selected_plots \cap figures]
                   /\ UNCHANGED export_window
              ELSE /\ last' = [Did("confirm_data_export", "ok", "")
                                 EXCEPT !.copied = selected_plots]
                   /\ export_window' = FALSE
  /\ UNCHANGED <<backend, config, form, new_run_button, load_run_button, reset_button,
                 save_button, export_button, plot_button, plot_variables, plotui,
                 input_json_dict, disk, bounds>>

\* cancel_data_export: the Cancel button of the export dialog.
cancel_data_export ==
  /\ export_window
  /\ export_window' = FALSE
  /\ last' = Idle
  /\ UNCHANGED <<backend, config, form, new_run_button, load_run_button, reset_button,
                 save_button, export_button, plot_button, plot_variables, plotui,
                 input_json_dict, disk, bounds>>

\* ------------------------------------------------------------------- Next
Next ==
  \/ activate_input_data_window
  \/ \E delta \in {-1, 1} : update_number_of_blocks(delta)
  \/ \E n \in TypedCounts : TypeNumberOfBlocks(n)
  \/ \E block \in BlockChoices : BlockRadioButton(block)
  \/ \E run_type \in {RunType_ELECTRON, RunType_PHONON, RunType_BOTH} :
       RunTypeRadioButton(run_type)
  \/ \E f \in FieldSet : \E text \in FieldValues(f) : EditField(f, text)
  \/ \E duration \in {0, DEFAULT_TIME_DURATION} :
       \E time_type \in {TimeType_MIN, TimeType_MAX} : EditBaseParameters(duration, time_type)
  \/ \E n \in TypedCopyFrom : TypeCopyFrom(n)
  \/ copy_block_input
  \/ \E directory \in ExampleDirectories : import_default_settings(directory)
  \/ cancel_data_input
  \/ \E can_write \in BOOLEAN : \E engine_ok \in BOOLEAN :
       confirm_data_input_and_run(can_write, engine_ok)
  \/ \E picked \in BOOLEAN : \E archive \in Archives : load_previous_run(picked, archive)
  \/ \E selected_blocks \in Selections : \E can_write \in BOOLEAN : \E engine_ok \in BOOLEAN :
       replot(selected_blocks, can_write, engine_ok)
  \/ \E filenum \in PlotChoices : PlotRadioButton(filenum)
  \/ \E user_choice \in BOOLEAN : reset_data_process(user_choice)
  \/ \E named \in BOOLEAN : \E can_write \in BOOLEAN : save_data(named, can_write)
  \/ export_data
  \/ \E ticked \in ExportSelections : PlotCheckbuttons(ticked)
  \/ \E has_directory \in BOOLEAN : confirm_data_export(has_directory)
  \/ cancel_data_export

Spec == Init /\ [][Next]_vars

\* ============================================================== the claims
\* The last callback was the Run button.
LaunchAttempted == last.op \in {"confirm_data_input_and_run", "start_data_process"}

\* The Run button passed validation and went on to start_data_process.
ValidationPassed == last.op = "start_data_process"

\* The launch reached the call of the engine's run entry point.
EngineInvoked == ValidationPassed /\ last.calls # <<>>

\* A field that is set: neither empty nor zero.
IsSet(text) == text # "" /\ text # "0.0"

\* The fields a run type requires in every block.
RequiredFields(run_type) ==
  {"block_sizes", "block_temperatures", "fermi_energies"}
  \cup (IF IncludesElectron(run_type)
          THEN {"electron_ev_file_paths", "electron_dos_file_paths",
                "electron_relaxation_times", "electron_effective_masses"}
          ELSE {})
  \cup (IF IncludesPhonon(run_type)
          THEN {"phonon_ev_file_paths", "phonon_dos_file_paths",
                "phonon_group_velocities", "phonon_relaxation_times"}
          ELSE {})

OptionalFields ==
  {"electron_tau_file_paths", "electron_group_velocities", "phonon_tau_file_paths"}

RequiredFieldsSet ==
  \A f \in RequiredFields(selected_run_type) : \A i \in DOMAIN arrays[f] : IsSet(arrays[f][i])

BaseParametersSet ==
  number_of_blocks # 0 /\ time_duration # 0 /\ selected_run_type # 0

\* C1: the engine's run entry point is invoked only for a config whose
\* required fields (of the current run type) are set in every block, and a
\* config whose required fields are set is launched whatever its optional
\* fields hold: neither validation nor an exception stops it before the
\* preferences file is opened.
C1_RequiredFieldsGateTheLaunch ==
  /\ EngineInvoked => RequiredFieldsSet
  /\ (LaunchAttempted /\ BaseParametersSet /\ RequiredFieldsSet)
       => (ValidationPassed /\ last.msg # "TclError")

\* The files a path of the current run type names that are not on disk.
MissingFiles ==
  UNION {Range(arrays[f]) : f \in StringFields \cap Range(VisibleFields(selected_run_type))}
  \ (ExistingFiles \cup {""})

\* C2: a launch whose config holds a non-empty path that names no existing
\* file is rejected by validation: the preferences document is not written
\* and the engine is not invoked.
C2_MissingFileRejected ==
  (LaunchAttempted /\ MissingFiles # {})
    => (~last.wrote /\ last.calls = <<>>)

\* The per-block lists of a document.
PerBlockKeys(doc) == DOMAIN doc \cap {KeyOf(f) : f \in FieldSet}

\* C3: whenever a launch invokes the engine, each of the 14 per-block lists in
\* memory and each per-block list of the preferences document just written
\* has exactly number_of_blocks entries.
C3_ListsMatchBlockCount ==
  EngineInvoked =>
    /\ \A f \in FieldSet : Len(arrays[f]) = number_of_blocks
    /\ \A k \in PerBlockKeys(prefs_file[1]) :
         Len(prefs_file[1][k]) = prefs_file[1]["number_of_blocks"]

\* The main window after a run: new and load disabled, reset, save and replot
\* (the Plot button and the block check boxes) enabled.
ResultsReadyAfterRun ==
  /\ ~new_run_button /\ ~load_run_button
  /\ reset_button /\ save_button
  /\ plot_button /\ block_check_buttons.enabled
  /\ MainWindow

ResultsHeld == ~new_run_button /\ ~load_run_button /\ reset_button /\ plot_button

\* C5: with MATLABBackendHandler, a launch of a config that passes validation,
\* with a preferences file that can be written and an engine whose calls
\* succeed, ends with results ready: the handler provides the run entry point
\* the controller calls.
C5_HandlerServesLaunch ==
  [][(/\ backend = MATLABBackendHandler
      /\ confirm_data_input_and_run(TRUE, TRUE)
      /\ last'.wrote)
       => (last'.result = "ok" /\ ResultsHeld' /\ Range(last'.calls) \subseteq backend)]_vars

\* C6: a launch whose engine call fails leaves every field of the config as it
\* was before the call, enables neither reset nor save nor replot, and ends in
\* the main window with new and load enabled.
C6_FailedLaunchKeepsConfig ==
  [][(last'.op = "start_data_process" /\ last'.result = "rejected")
       => /\ UNCHANGED config
          /\ ~reset_button' /\ ~save_button'
          /\ UNCHANGED <<plot_button, block_check_buttons, plot_radio_buttons>>
          /\ new_run_button' /\ load_run_button' /\ MainWindow']_vars

C6_Witness ==
  EngineInvoked /\ last.result = "rejected" /\ last.msg = BackendErrorMessage

\* C7: a successful run and a successful load disable new and load and
\* enable reset; from then until a reset the user confirms, whatever else is
\* done (replot, save, export, a declined reset, a plot selector), new and load
\* stay disabled, the form stays closed and no launch happens.
C7_NoLaunchWhileResultsHeld ==
  /\ []((last.op \in {"start_data_process", "load_previous_run"} /\ last.result = "ok")
          => (reset_button /\ ~new_run_button /\ ~load_run_button))
  /\ [][(reset_button /\ ~(last'.op = "reset_data_process" /\ last'.result = "ok"))
          => /\ reset_button' /\ ~new_run_button' /\ ~load_run_button'
             /\ input_window' = "closed"
             /\ launches' = launches
             /\ Range(last'.calls) \cap RunEntryPoints = {}]_vars

C7_Witness ==
  /\ reset_button
  /\ last.op \in {"replot", "save_data", "reset_data_process"}
  /\ data_frame_image \in {PlotNumber_DATA_PROCESSED_SUCCESSFULLY,
                           PlotNumber_DATA_LOADED_SUCCESSFULLY}

\* A config that validation must refuse: a base parameter is zero or a field
\* the run type requires is not set in some block.
InvalidConfig == ~BaseParametersSet \/ ~RequiredFieldsSet

ValidationCategories ==
  {"Base Parameter"} \cup {c.category : c \in Range(ValidationChecks(RunType_BOTH))}

\* C8: a launch whose config fails validation reports the violation and
\* changes nothing: the form stays open, no preferences document is written,
\* the engine is not invoked, the config and the buttons are as before.
C8_InvalidConfigReported ==
  [][(InvalidConfig /\ \E can_write, engine_ok \in BOOLEAN :
                         confirm_data_input_and_run(can_write, engine_ok))
       => /\ last'.op = "confirm_data_input_and_run"
          /\ last'.result = "rejected" /\ last'.msg \in ValidationCategories
          /\ ~last'.wrote /\ last'.calls = <<>>
          /\ input_window' = "open"
          /\ UNCHANGED <<config, menu, plotui, input_json_dict, disk>>]_vars

\* C9: in a launch that passes validation the engine is invoked only after
\* the preferences document was written, and the document written holds the
\* block count, duration, time type, run type and, for each per-block list of
\* the run type, the values of the config.
C9_DocumentWrittenBeforeEngine ==
  ValidationPassed =>
    /\ last.calls # <<>> => last.wrote
    /\ last.wrote =>
         /\ prefs_file # <<>>
         /\ prefs_file[1]["number_of_blocks"] = number_of_blocks
         /\ prefs_file[1]["time_duration"] = time_duration
         /\ prefs_file[1]["time_type"] = selected_time_type
         /\ prefs_file[1]["run_type"] = selected_run_type
         /\ \A f \in Range(VisibleFields(selected_run_type)) :
              prefs_file[1][KeyOf(f)] = arrays[f]

C9_Witness == EngineInvoked /\ last.wrote /\ number_of_blocks # DEFAULT_NUM_BLOCKS

\* A complete config: every list of the run type holds number_of_blocks entries.
CompleteConfig ==
  /\ BaseParametersSet
  /\ \A f \in Range(VisibleFields(selected_run_type)) : Len(arrays[f]) = number_of_blocks

\* C10: load_previous_run either ends with a complete config taken from the
\* archive's document, or reports a failure and leaves the config, the
\* document dictionary and the buttons as they were.
C10_LoadAllOrNothing ==
  [][(last'.op = "load_previous_run")
       => \/ last'.result = "ok" /\ CompleteConfig'
          \/ /\ last'.result = "rejected"
             /\ UNCHANGED <<config, input_json_dict, menu, plotui>>]_vars

\* An archive that lacks one of the three named members.
IncompleteArchives == {a \in Archives : a.members # Range(SEAQT_RUN_FILENAMES)}

\* C11: loading an archive that lacks one of the three named members,
\* whichever it is, reports the unpack failure and leaves the config, the
\* document dictionary, the preferences file and every button as they were.
C11_IncompleteArchiveRejected ==
  [][(\E archive \in IncompleteArchives : load_previous_run(TRUE, archive))
       => /\ last'.result = "rejected" /\ last'.msg = UnpackErrorMessage
          /\ UNCHANGED <<config, menu, plotui, input_json_dict, prefs_file>>]_vars

\* An unpack failure after part of the archive was extracted.
C11_Witness ==
  /\ last.op = "load_previous_run" /\ last.msg = UnpackErrorMessage
  /\ mat_files # {}

\* A document that carries its block count and run type and in which a
\* per-block list of the run type has a length other than the block count.
InconsistentLength(doc) ==
  /\ {"number_of_blocks", "run_type"} \subseteq DOMAIN doc
  /\ \E f \in Range(VisibleFields(doc["run_type"])) :
       KeyOf(f) \in DOMAIN doc /\ Len(doc[KeyOf(f)]) # doc["number_of_blocks"]

\* C12: load_previous_run fails for every document in which a per-block list
\* of the run type is shorter or longer than number_of_blocks.
C12_InconsistentLengthRejected ==
  [][(\E archive \in Archives \ IncompleteArchives :
        InconsistentLength(archive.doc) /\ load_previous_run(TRUE, archive))
       => last'.result = "rejected"]_vars

\* A document that lacks the block count, the run type, the duration or a
\* per-block list of its run type.
LacksRequiredKey(doc) ==
  \/ ~({"number_of_blocks", "run_type", "time_duration"} \subseteq DOMAIN doc)
  \/ /\ "run_type" \in DOMAIN doc
     /\ \E f \in Range(VisibleFields(doc["run_type"])) : KeyOf(f) \notin DOMAIN doc

\* C13: load_previous_run fails for every document that lacks
\* number_of_blocks, run_type, time_duration or a per-block list of its run
\* type, whatever block count the document carries.
C13_MissingKeyRejected ==
  [][(\E archive \in Archives \ IncompleteArchives :
        LacksRequiredKey(archive.doc) /\ load_previous_run(TRUE, archive))
       => last'.result = "rejected"]_vars

\* What load_previous_run builds from a document it reads in full: whether it
\* reports a failure, and else the config (the four scalars and the 14 lists).
Reloaded(doc) ==
  IF MissingScalar(doc) # "" THEN [failed |-> TRUE, config |-> <<>>]
  ELSE LET l == LoadedArrays(doc, doc["number_of_blocks"], doc["run_type"])
       IN IF l.exc # "" THEN [failed |-> TRUE, config |-> <<>>]
          ELSE [failed |-> FALSE,
                config |-> <<doc["number_of_blocks"], doc["time_duration"], doc["time_type"],
                             doc["run_type"], l.arr>>]

\* C14: round trip.  The config load_previous_run rebuilds from the document
\* that start_data_process wrote for a config that passed validation is that
\* config: the same block count, duration, time type and run type and the
\* same 14 per-block lists.  (Stated for the configs whose 14 lists all hold
\* number_of_blocks entries, the ones update_number_of_blocks leaves.)
C14_RoundTrip ==
  (/\ ValidationPassed /\ last.wrote
   /\ \A f \in FieldSet : Len(arrays[f]) = number_of_blocks)
    => (~Reloaded(prefs_file[1]).failed /\ Reloaded(prefs_file[1]).config = config)

\* A document holds the lists of the electron family exactly when its run type
\* includes ELECTRON, those of the phonon family exactly when it includes
\* PHONON, and every per-block list in it has number_of_blocks entries.
WellFormedDocument(doc) ==
  /\ \A f \in Range(SharedFields) : KeyOf(f) \in DOMAIN doc
  /\ \A f \in Range(ElectronFields) :
       KeyOf(f) \in DOMAIN doc <=> IncludesElectron(doc["run_type"])
  /\ \A f \in Range(PhononFields) :
       KeyOf(f) \in DOMAIN doc <=> IncludesPhonon(doc["run_type"])
  /\ \A k \in PerBlockKeys(doc) : Len(doc[k]) = doc["number_of_blocks"]

\* C15: every preferences document a launch writes, at any point of a
\* session, holds the electron lists exactly when its run type includes
\* ELECTRON, the phonon lists exactly when it includes PHONON, and lists of
\* number_of_blocks entries.  (Stated for the launches of a config whose 14
\* lists all hold number_of_blocks entries.)
C15_DocumentMatchesRunType ==
  (/\ ValidationPassed /\ last.wrote
   /\ \A f \in FieldSet : Len(arrays[f]) = number_of_blocks)
    => WellFormedDocument(prefs_file[1])

\* C16: a preferences document holds selected_subs only if a replot was
\* requested for the run it describes: the document a launch writes, before
\* any replot of that run, holds none; and the indexes in the document a
\* replot writes lie in 0..number_of_blocks-1 of that document.
C16_SelectionBelongsToRun ==
  /\ (ValidationPassed /\ last.wrote) => "selected_subs" \notin DOMAIN prefs_file[1]
  /\ (last.op = "replot" /\ last.wrote)
       => \A i \in Range(prefs_file[1]["selected_subs"]) :
            i >= 0 /\ i < prefs_file[1]["number_of_blocks"]

\* C17: replot with no block selected fails locally: generate_plot is not
\* called, the preferences file is not rewritten, the dictionary, the config
\* and the buttons stay as they were; with a selection, generate_plot is
\* called only after the document holding that selection was written.
C17_EmptySelectionFailsLocally ==
  [][\A selected_blocks \in Selections :
       (\E can_write, engine_ok \in BOOLEAN : replot(selected_blocks, can_write, engine_ok))
         => IF selected_blocks = <<>>
              THEN /\ last'.result = "rejected" /\ last'.calls = <<>> /\ ~last'.wrote
                   /\ UNCHANGED <<config, menu, plotui, input_json_dict, disk>>
              ELSE last'.calls # <<>>
                     => /\ last'.wrote
                        /\ "selected_subs" \in DOMAIN prefs_file'[1]
                        /\ prefs_file'[1]["selected_subs"] = selected_blocks]_vars

\* Plot was clicked with no block ticked while a document was held.
C17_Witness ==
  /\ last.op = "replot" /\ last.result = "rejected" /\ last.msg = "No Block(s) Selected"
  /\ input_json_dict # EmptyDict

\* The last callback, a launch or a replot, ended in the failure of its call
\* on the backend.
EngineFailed ==
  /\ last.op \in {"start_data_process", "replot"}
  /\ last.result = "rejected" /\ last.msg = BackendErrorMessage

\* C18: after every engine failure, of a launch or of a replot, the user is
\* back in the main window with new and load enabled, so that a launch can
\* be started.
C18_EngineFailureReturnsToEditing ==
  EngineFailed => (MainWindow /\ new_run_button /\ load_run_button)

\* C19: when the engine call of a launch or of a replot fails, the preferences
\* file and the document dictionary are what they were before the launch or
\* the replot started.
C19_EngineFailureKeepsDocument ==
  [][EngineFailed' => UNCHANGED <<prefs_file, input_json_dict>>]_vars

\* C20: while results are held (new disabled), new becomes enabled again only
\* by a reset the user confirmed; that reset removes the plot images and the
\* solver files and enables new and load; a reset the user declined changes
\* no field of the config, no button and no file.
C20_OnlyConfirmedResetLeavesResults ==
  /\ [][(~new_run_button /\ new_run_button')
          => (last'.op = "reset_data_process" /\ last'.result = "ok")]_vars
  /\ [][reset_data_process(TRUE)
          => /\ figures' = {} /\ mat_files' = {}
             /\ new_run_button' /\ load_run_button' /\ ~reset_button'
             /\ number_of_blocks' = DEFAULT_NUM_BLOCKS /\ arrays' = EmptyArrays]_vars
  /\ [][reset_data_process(FALSE) => UNCHANGED <<config, form, menu, plotui, disk>>]_vars

\* A confirmed reset of a session that held a document.
C20_Witness ==
  /\ last.op = "reset_data_process" /\ last.result = "ok"
  /\ input_json_dict # EmptyDict /\ mat_files = {} /\ figures = {}

\* The default configuration: the default block count, duration, time type
\* and run type, and lists of that many blocks holding the default values.
DefaultConfiguration ==
  /\ number_of_blocks = DEFAULT_NUM_BLOCKS
  /\ time_duration = DEFAULT_TIME_DURATION
  /\ selected_time_type = DEFAULT_TIME_TYPE
  /\ selected_run_type = DEFAULT_RUN_TYPE
  /\ \A f \in FieldSet :
       /\ Len(arrays[f]) = DEFAULT_NUM_BLOCKS
       /\ \A i \in DOMAIN arrays[f] :
            arrays[f][i] = DefaultValue(f, i - 1, DEFAULT_NUM_BLOCKS, FreshVar(f))

\* C21: after a confirmed reset the config is the default configuration:
\* 20 blocks, duration 100, time type MIN, run type BOTH, and per-block lists
\* of 20 entries that hold the default physical constants.
C21_ResetGivesDefaultConfiguration ==
  (last.op = "reset_data_process" /\ last.result = "ok") => DefaultConfiguration

\* The enablement of the main window's controls at application start.
InitialEnablement ==
  /\ new_run_button /\ load_run_button
  /\ ~reset_button /\ ~save_button /\ ~export_button
  /\ ~plot_button /\ ~block_check_buttons.enabled /\ plot_radio_buttons = {}

\* C22: after a confirmed reset every control is enabled as at application
\* start: new and load enabled; reset, save, export, the Plot button, the block
\* check boxes and the plot selectors disabled.
C22_ResetRestoresInitialEnablement ==
  (last.op = "reset_data_process" /\ last.result = "ok") => InitialEnablement

\* The categories of violation in the documented order, each with the list it
\* is about and the run types it is checked for.
DocumentedOrder ==
  << [category |-> "Block Size", field |-> "block_sizes", family |-> "shared"],
     [category |-> "Block Temperature", field |-> "block_temperatures", family |-> "shared"],
     [category |-> "Fermi Energy", field |-> "fermi_energies", family |-> "shared"],
     [category |-> "Electron EV File Path", field |-> "electron_ev_file_paths", family |-> "electron"],
     [category |-> "Electron DOS File Path", field |-> "electron_dos_file_paths", family |-> "electron"],
     [category |-> "Electron Relaxation Time", field |-> "electron_relaxation_times", family |-> "electron"],
     [category |-> "Electron Effective Mass", field |-> "electron_effective_masses", family |-> "electron"],
     [category |-> "Phonon EV File Path", field |-> "phonon_ev_file_paths", family |-> "phonon"],
     [category |-> "Phonon DOS File Path", field |-> "phonon_dos_file_paths", family |-> "phonon"],
     [category |-> "Phonon Group Velocities", field |-> "phonon_group_velocities", family |-> "phonon"],
     [category |-> "Phonon Relaxation Time", field |-> "phonon_relaxation_times", family |-> "phonon"] >>

\* A category is checked for the current run type.
Checked(c) ==
  \/ c.family = "shared"
  \/ c.family = "electron" /\ IncludesElectron(selected_run_type)
  \/ c.family = "phonon" /\ IncludesPhonon(selected_run_type)

\* A category is violated: some block, whichever, holds no value for its field.
Violated(c) == Checked(c) /\ \E i \in DOMAIN arrays[c.field] : ~IsSet(arrays[c.field][i])

\* The one violation the documented order reports for the config.
FirstDocumentedViolation ==
  IF ~BaseParametersSet THEN "Base Parameter"
  ELSE DocumentedOrder[Min({k \in DOMAIN DocumentedOrder : Violated(DocumentedOrder[k])})].category

\* C23: validation is fail-fast.  A launch attempt on an invalid config is
\* rejected with one violation, the first in the order base parameters, block
\* size, block temperature, Fermi energy, the four electron categories (if the
\* run type includes ELECTRON), the four phonon categories (if it includes
\* PHONON), whichever block holds the missing value.
C23_FirstViolationReported ==
  [][(InvalidConfig /\ \E can_write, engine_ok \in BOOLEAN :
                         confirm_data_input_and_run(can_write, engine_ok))
       => /\ last'.result = "rejected"
          /\ last'.msg = FirstDocumentedViolation]_vars

\* The electron DOS path of some block is missing.
ElectronDOSMissing ==
  \E i \in DOMAIN arrays["electron_dos_file_paths"] :
     ~IsSet(arrays["electron_dos_file_paths"][i])

\* The categories checked before the electron DOS path are satisfied.
EarlierThanElectronDOSSet ==
  /\ BaseParametersSet
  /\ \A f \in {"block_sizes", "block_temperatures", "fermi_energies", "electron_ev_file_paths"} :
       \A i \in DOMAIN arrays[f] : IsSet(arrays[f][i])

CompleteExceptOneBlockOf(f, run_type) ==
  /\ BaseParametersSet
  /\ \A g \in RequiredFields(run_type) \ {f} : \A i \in DOMAIN arrays[g] : IsSet(arrays[g][i])
  /\ Cardinality({i \in DOMAIN arrays[f] : ~IsSet(arrays[f][i])}) = 1

\* The Run button is clicked.
RunClicked ==
  \E can_write, engine_ok \in BOOLEAN : confirm_data_input_and_run(can_write, engine_ok)

\* C25: for run type ELECTRON validation does not inspect the phonon fields
\* (a config whose shared and electron fields are set passes it whatever the
\* phonon fields hold), and a config complete except for the electron
\* relaxation time of one block, whichever, is rejected with the category
\* Electron Relaxation Time; for run type PHONON the electron fields are not
\* inspected.
C25_RunTypeSelectsTheChecks ==
  [][RunClicked =>
       /\ (selected_run_type = RunType_ELECTRON /\ BaseParametersSet /\ RequiredFieldsSet)
            => ValidationPassed'
       /\ (selected_run_type = RunType_PHONON /\ BaseParametersSet /\ RequiredFieldsSet)
            => ValidationPassed'
       /\ (/\ selected_run_type = RunType_ELECTRON
           /\ CompleteExceptOneBlockOf("electron_relaxation_times", RunType_ELECTRON))
            => /\ last'.result = "rejected"
               /\ last'.msg = "Electron Relaxation Time"]_vars

\* The 14 lists have the same length.
EqualLength(arr) == \A f \in FieldSet : Len(arr[f]) = Len(arr["block_sizes"])

\* The block counts update_number_of_blocks is tried with: small ones and one
\* above the default.
ResizeCounts == 1..MaxResize \cup {DEFAULT_NUM_BLOCKS + 1}

\* after holds n entries: those of before up to the shorter length, in the
\* same order, then fresh ones.
ResizedFrom(before, after, n) ==
  \A f \in FieldSet :
     /\ Len(after[f]) = n
     /\ after[f] = [i \in 1..n |-> IF i <= Len(before[f]) THEN before[f][i] ELSE FreshVar(f)]

\* C26: from lists of equal length, update_number_of_blocks with n1 and then
\* with n2 (n1, n2 >= 1) leaves every list with exactly n2 entries, the first
\* min(n1, n2) being those after the first call in the same order; growth
\* appends fresh entries, shrinking drops trailing entries only.  Checked for
\* every pair of counts on every config reached, and on every step of the
\* spinbox arrows.
C26_ResizeKeepsPrefix ==
  /\ [](EqualLength(arrays) =>
          \A n1, n2 \in ResizeCounts :
             LET first == ResizedArrays(arrays, n1)
                 second == ResizedArrays(first, n2)
             IN /\ ResizedFrom(arrays, first, n1)
                /\ ResizedFrom(first, second, n2))
  /\ [][(EqualLength(arrays) /\ \E delta \in {-1, 1} : update_number_of_blocks(delta))
          => ResizedFrom(arrays, arrays', number_of_blocks')]_vars

\* The form was opened (20 fresh blocks), the defaults were imported and the
\* down arrow removed block 20: the 19 blocks left hold the defaults.
C26_Witness ==
  /\ input_window = "open" /\ inputs = 1
  /\ number_of_blocks = DEFAULT_NUM_BLOCKS - 1
  /\ \A f \in FieldSet : Len(arrays[f]) = DEFAULT_NUM_BLOCKS - 1
  /\ arrays["block_temperatures"][1] = DEFAULT_BLOCK_TEMP_A
  /\ arrays["block_temperatures"][DEFAULT_NUM_BLOCKS - 1] = DEFAULT_BLOCK_TEMP_B

\* A callback that calls update_number_of_blocks runs: the form is opened, an
\* arrow of the block-count spinbox is clicked, or the defaults are imported.
UpdateNumberOfBlocksCalled ==
  \/ activate_input_data_window
  \/ \E delta \in {-1, 1} : update_number_of_blocks(delta)
  \/ \E directory \in ExampleDirectories : import_default_settings(directory)

\* C27: in every state the session reaches (through new, cancel, launch, a
\* load that succeeded or failed, reset, block-count changes) a call of
\* update_number_of_blocks leaves the 14 per-block lists with the same
\* length, equal to number_of_blocks.
C27_ResizeLeavesEqualLengths ==
  [][UpdateNumberOfBlocksCalled
       => \A f \in FieldSet : Len(arrays'[f]) = number_of_blocks']_vars

\* The block selected for editing and the copy-from block are blocks of the
\* config.
CopyInsideRange ==
  /\ selected_block_input \in 1..number_of_blocks
  /\ block_to_copy_from \in 1..number_of_blocks

\* C28: copy_block_input with source and destination inside the block range
\* makes each of the 14 per-block fields of the destination equal to the
\* source's and leaves every other block, the block count and the scalar
\* parameters unchanged.  (Stated for the configs whose 14 lists all hold
\* number_of_blocks entries.)
C28_CopyMakesBlocksEqual ==
  [][(/\ copy_block_input
      /\ CopyInsideRange
      /\ \A f \in FieldSet : Len(arrays[f]) = number_of_blocks)
       => /\ \A f \in FieldSet :
               /\ Len(arrays'[f]) = Len(arrays[f])
               /\ arrays'[f][selected_block_input] = arrays[f][block_to_copy_from]
               /\ \A i \in DOMAIN arrays[f] \ {selected_block_input} :
                    arrays'[f][i] = arrays[f][i]
          /\ UNCHANGED <<number_of_blocks, time_duration, selected_time_type,
                         selected_run_type>>]_vars

\* C29: copy_block_input fails with an out-of-range error and changes no
\* field of any block whenever the copy-from block number or the selected
\* block number is outside 1..number_of_blocks, below or above.  (Stated for
\* the configs whose 14 lists all hold number_of_blocks entries.)
C29_CopyOutsideRangeFails ==
  [][(/\ copy_block_input
      /\ ~CopyInsideRange
      /\ \A f \in FieldSet : Len(arrays[f]) = number_of_blocks)
       => /\ last'.op = "copy_block_input"
          /\ last'.result = "raised" /\ last'.msg = "IndexError"
          /\ UNCHANGED arrays]_vars

\* The block numbers the form holds address a block of every list.
BlockNumbersInRange ==
  /\ selected_block_input \in 1..number_of_blocks
  /\ block_to_copy_from \in 1..number_of_blocks
  /\ \A f \in FieldSet :
       selected_block_input <= Len(arrays[f]) /\ block_to_copy_from <= Len(arrays[f])

\* C30: in every state of the input form (reached by block selections,
\* block-count increases and decreases, copies, import of the defaults,
\* cancel and reopening) the block selected for editing and the copy-from
\* block number lie in 1..number_of_blocks, the length of the per-block
\* lists, and no callback of the form ended in an IndexError.
C30_BlockNumbersStayInRange ==
  input_window # "closed" => (BlockNumbersInRange /\ last.msg # "IndexError")

\* C31: no callback ends in an exception that leaves it: every failure (a
\* preferences file that cannot be written, a block index out of range, an
\* entry that holds no number) is caught in the callback and reported.
C31_NoUncaughtException ==
  last.result # "raised"

C33_OneEngineCallPerLaunch ==
  /\ ValidationPassed
       => /\ last.calls = <<RunEntryPoint(selected_run_type)>>
          /\ Range(last.calls) \subseteq backend
  /\ last.op = "replot" => last.calls \in {<<>>, <<"generate_plot">>}
  /\ last.op \notin {"start_data_process", "replot"} => last.calls = <<>>

\* The ordinals of the plots.
PlotOrdinals == 1..9

\* C34: update_plot(n) displays image n when it is there and the error image
\* (999) otherwise; it enables Export only when n is a plot ordinal (1..9)
\* and image n itself was loaded: a plot selector whose image is missing
\* shows the error image and leaves Export as it was, and Export never
\* becomes enabled while a status image or the error image is displayed.
C34_FallbackAndExportGate ==
  /\ [][\A filenum \in PlotChoices :
          PlotRadioButton(filenum)
            => /\ data_frame_image' = IF filenum \in figures THEN filenum ELSE PlotNumber_ERROR
               /\ export_button' = (export_button \/ filenum \in figures)]_vars
  /\ [][(~export_button /\ export_button')
          => (data_frame_image' \in PlotOrdinals \cap figures')]_vars
  /\ [](data_frame_image \in PlotOrdinals => data_frame_image \in figures)

\* A plot selector was clicked whose image is not there: the error image is
\* displayed and Export is disabled.
C34_Witness ==
  /\ selected_plot \in PlotChoices /\ selected_plot \notin figures
  /\ data_frame_image = PlotNumber_ERROR
  /\ ~export_button

C36_PlotOnlyWhileResultsHeld ==
  /\ [][last'.calls = <<"generate_plot">>
          => /\ last'.op = "replot"
             /\ reset_button /\ ~new_run_button /\ ~load_run_button
             /\ block_check_buttons.enabled
             /\ input_json_dict # EmptyDict]_vars
  /\ [][(~reset_button /\ \E selected_blocks \in Selections : \E can_write, engine_ok \in BOOLEAN :
                            replot(selected_blocks, can_write, engine_ok))
          => last'.calls = <<>>]_vars

\* generate_plot was called after a load.
C36_Witness ==
  /\ last.op = "replot" /\ last.calls = <<"generate_plot">>
  /\ data_frame_image = PlotNumber_DATA_LOADED_SUCCESSFULLY

\* C37: after a successful load_previous_run new, load and save are
\* disabled, reset and replot are enabled, there is one enabled block check
\* box per loaded block, and the plot selectors enabled are those of the
\* loaded run type: 1..5 for ELECTRON or BOTH, 6..7 for PHONON or BOTH, 8..9
\* for BOTH only.
C37_LoadedRunUnlocksItsPlots ==
  (last.op = "load_previous_run" /\ last.result = "ok")
    => /\ ~new_run_button /\ ~load_run_button /\ ~save_button
       /\ reset_button /\ plot_button
       /\ block_check_buttons.enabled
       /\ block_check_buttons.n = number_of_blocks
       /\ selected_run_type = prefs_file[1]["run_type"]
       /\ number_of_blocks = prefs_file[1]["number_of_blocks"]
       /\ \A p \in 1..9 :
            p \in plot_radio_buttons
              <=> \/ p <= 5 /\ selected_run_type \in {RunType_ELECTRON, RunType_BOTH}
                  \/ p \in 6..7 /\ selected_run_type \in {RunType_PHONON, RunType_BOTH}
                  \/ p >= 8 /\ selected_run_type = RunType_BOTH

\* An electron-only run was loaded: the selectors 1..5 are enabled.
C37_Witness ==
  /\ last.op = "load_previous_run" /\ last.result = "ok"
  /\ selected_run_type = RunType_ELECTRON
  /\ plot_radio_buttons = 1..5
  /\ block_check_buttons = [n |-> ArchiveBlocks, enabled |-> TRUE]

C39_CancelDiscardsEdits ==
  /\ [][cancel_data_input
          => /\ number_of_blocks' = DEFAULT_NUM_BLOCKS
             /\ time_duration' = DEFAULT_TIME_DURATION
             /\ selected_time_type' = DEFAULT_TIME_TYPE
             /\ selected_run_type' = DEFAULT_RUN_TYPE
             /\ \A f \in FieldSet : arrays'[f] = <<>>
             /\ UNCHANGED <<new_run_button, load_run_button, reset_button, save_button,
                            export_button>>
             /\ UNCHANGED <<prefs_file, input_json_dict, mat_files>>
             /\ ~last'.wrote
             /\ last'.calls = <<>>]_vars
  /\ [](last.op = "reset_data_process" /\ last.result = "ok"
          => config = <<DEFAULT_NUM_BLOCKS, DEFAULT_TIME_DURATION, DEFAULT_TIME_TYPE,
                        DEFAULT_RUN_TYPE, EmptyArrays>>)

\* The form was cancelled after an edit: it is closed, nothing was launched or
\* written, and the config holds the defaults with empty lists.
C39_Witness ==
  /\ inputs = 1 /\ launches = 0 /\ prefs_file = <<>> /\ input_json_dict = EmptyDict
  /\ input_window = "closed" /\ last = Idle
  /\ new_run_button /\ load_run_button /\ ~reset_button
  /\ config = <<DEFAULT_NUM_BLOCKS, DEFAULT_TIME_DURATION, DEFAULT_TIME_TYPE,
                DEFAULT_RUN_TYPE, EmptyArrays>>

\* C40: after import_default_settings completes with the four example data
\* files present, from any state of the form, the config has 20 blocks of run
\* type BOTH, the first 10 at 295 K and the last 10 at 300 K, and passes
\* validation, so that a launch that follows immediately reaches the call of
\* the engine.
C40_ImportedDefaultsLaunch ==
  /\ [](last.op = "import_default_settings" /\ last.result = "ok"
          => /\ number_of_blocks = DEFAULT_NUM_BLOCKS
             /\ selected_run_type = RunType_BOTH
             /\ \A f \in FieldSet : Len(arrays[f]) = DEFAULT_NUM_BLOCKS
             /\ \A i \in 1..DEFAULT_NUM_BLOCKS :
                  arrays["block_temperatures"][i]
                    = IF i <= 10 THEN DEFAULT_BLOCK_TEMP_A ELSE DEFAULT_BLOCK_TEMP_B
             /\ Validation(number_of_blocks, time_duration, selected_run_type, arrays) = "")
  /\ [][(/\ last.op = "import_default_settings" /\ last.result = "ok"
         /\ \E engine_ok \in BOOLEAN : confirm_data_input_and_run(TRUE, engine_ok))
          => /\ last'.op = "start_data_process"
             /\ last'.calls = <<RunEntryPoint(RunType_BOTH)>>]_vars

====
